---- MODULE Spec2Model ----
(***************************************************************************)
(* Scene timeline and subtitle segmentation of the podcast video director. *)
(*                                                                         *)
(* Time in seconds is a real number in the source; here it is an integer   *)
(* number of hundredths of a second (cs), so Math.ceil(seconds * FPS) is   *)
(* CeilDiv(cs * FPS, 100) and is not the identity.  Frame positions of     *)
(* subtitle chunks are rationals, kept as integer numerators over a common *)
(* denominator.  All arithmetic is exact: floating-point rounding is not   *)
(* modelled.                                                               *)
(***************************************************************************)
EXTENDS Integers, Sequences, FiniteSets, TLC

VARIABLES
    videoData,        \* App state: Null, or [scenes |-> sequence of Scene]
    loading,          \* App state: a generateScript call is pending
    timeline,         \* MyVideoComposition: the memoised placements
    playerDuration,   \* the durationInFrames prop handed to <Player>
    visualTrack,      \* the visual <Sequence> of every scene
    audioTrack,       \* the audio <Sequence> of every scene, Null without audioUrl
    exportPc,         \* downloadAudioTrack: "idle", "decode", "mixed"
    exportScenes,     \* downloadAudioTrack: videoData.scenes of its closure
    buffers,          \* downloadAudioTrack: the clips pushed so far
    exportCursor,     \* downloadAudioTrack: currentFrame
    exportIdx,        \* downloadAudioTrack: position of the for-of loop (1-based)
    scene,            \* SceneComponent: props.scene
    sceneIndex,       \* SceneComponent: props.index, the scene's place (from 0)
    mounted,          \* SceneComponent: it has rendered
    chunks,           \* SceneComponent: the memoised subtitle chunks
    frame,            \* SceneComponent: useCurrentFrame()
    batch,            \* addAudioToScript: Null, or the locals of the pending call
    speech,           \* the text a handler hands to generateSpeech for one scene
    prompt,           \* App state: the topic typed so far
    audioLoading,     \* App state: a batch addAudioToScript call is pending
    audioProgress,    \* App state: Null, or [current, total]
    error,            \* App state: Null, or the message of the failed generation
    regeneratingIds,  \* App state: the indices whose retry button spins
    regenCalls,       \* the handleRegenerateAudio calls in flight
    crashed,          \* a state updater threw: React has unmounted the App
    generateCall,     \* Null, or the pending generateScript(prompt) call
    scriptsMade       \* how many scripts generateScript has returned so far

appVars == <<videoData, loading, timeline, playerDuration, visualTrack, audioTrack,
             exportPc, exportScenes, buffers, exportCursor, exportIdx>>
sceneVars == <<scene, sceneIndex, mounted, chunks, frame>>
serviceVars == <<batch, speech>>
uiVars == <<prompt, audioLoading, audioProgress, error, regeneratingIds, regenCalls,
            crashed, generateCall, scriptsMade>>
vars == <<appVars, sceneVars, serviceVars, uiVars>>

------------------------------------------------------------------------------
(* Program constants *)

FPS == 30
TRANSITION_DURATION_IN_FRAMES == 15

(* Bounds of the model *)

MaxScenes == 3        \* scenes in a generated script
MaxDurSteps == 5      \* scene durations are 0.25 s, 0.50 s, ... MaxDurSteps * 0.25 s
MaxAudioSteps == 1    \* audio clips are 0.40 s, ... MaxAudioSteps * 0.40 s long

\* null / undefined: a record no value of the program equals
Null == [null |-> TRUE]

Max(a, b) == IF a >= b THEN a ELSE b
Min(a, b) == IF a <= b THEN a ELSE b

\* Math.ceil(num / den) for num >= 0, den > 0
CeilDiv(num, den) == (num + den - 1) \div den

\* Math.ceil(scene.durationInSeconds * FPS), the duration in hundredths of a second
DurationInFrames(cs) == CeilDiv(cs * FPS, 100)

RECURSIVE SumSeq(_)
SumSeq(s) == IF s = <<>> THEN 0 ELSE Head(s) + SumSeq(Tail(s))

------------------------------------------------------------------------------
(* Inputs *)

\* durationInSeconds values the script generator returns (in cs): 8, 15, 23, 30, 38 .. frames
ScriptDurations == {25 * k : k \in 1..MaxDurSteps}

\* durations of the clips the speech generator returns (in cs)
AudioDurations == {40 * k : k \in 1..MaxAudioSteps}

\* a scene as generateScript returns it: no audioUrl. audioUrl is 0 when the
\* field is absent, and otherwise stands for the URL of a clip of that length.
NewScene(cs) == [durationInSeconds |-> cs, audioUrl |-> 0]

Scripts ==
    UNION {[1..n -> {NewScene(cs) : cs \in ScriptDurations}] : n \in 1..MaxScenes}

------------------------------------------------------------------------------
(* MyVideoComposition: the timeline builder and the two tracks *)

NextFrameNoClamp(currentFrame, durationInFrames) ==
    currentFrame + (durationInFrames - TRANSITION_DURATION_IN_FRAMES)

NextFrameNoOverlap(currentFrame, durationInFrames) ==
    currentFrame + durationInFrames

NextFrame(currentFrame, durationInFrames) ==
    currentFrame + Max(0, durationInFrames - TRANSITION_DURATION_IN_FRAMES)

RECURSIVE TimelineFrom(_, _, _)
TimelineFrom(scenes, i, currentFrame) ==
    IF i > Len(scenes) THEN <<>>
    ELSE LET durationInFrames == DurationInFrames(scenes[i].durationInSeconds)
             startFrame == currentFrame
         IN  <<[startFrame |-> startFrame, durationInFrames |-> durationInFrames]>>
             \o TimelineFrom(scenes, i + 1, NextFrame(currentFrame, durationInFrames))

Timeline(scenes) == TimelineFrom(scenes, 1, 0)

VisualTrack(scenes, tl) ==
    [index \in 1..Len(scenes) |->
        [from |-> tl[index].startFrame, durationInFrames |-> tl[index].durationInFrames]]

AudioTrack(scenes, tl) ==
    [index \in 1..Len(scenes) |->
        IF scenes[index].audioUrl = 0 THEN Null
        ELSE [from |-> tl[index].startFrame, durationInFrames |-> tl[index].durationInFrames]]

------------------------------------------------------------------------------
(* App: getDurationInFrames and hasAudio *)

OverlapFramesEveryScene(n) == n * TRANSITION_DURATION_IN_FRAMES

OverlapFrames(n) == Max(0, n - 1) * TRANSITION_DURATION_IN_FRAMES

GetDurationInFrames(vd) ==
    IF vd = Null THEN 0
    ELSE LET totalSceneFrames ==
                 SumSeq([i \in 1..Len(vd.scenes) |->
                            DurationInFrames(vd.scenes[i].durationInSeconds)])
         IN  totalSceneFrames - OverlapFrames(Len(vd.scenes))

HasAudio(vd) ==
    IF vd = Null THEN FALSE
    ELSE \A i \in 1..Len(vd.scenes) : vd.scenes[i].audioUrl # 0

\* What React renders after videoData becomes vd: the player only exists when
\* videoData is set, and the composition memoises the timeline of its scenes.
Render(vd) ==
    LET scenes == IF vd = Null THEN <<>> ELSE vd.scenes
        tl == Timeline(scenes)
    IN  /\ timeline' = tl
        /\ playerDuration' = GetDurationInFrames(vd)
        /\ visualTrack' = VisualTrack(scenes, tl)
        /\ audioTrack' = AudioTrack(scenes, tl)

------------------------------------------------------------------------------
(* geminiService: addAudioToScript, and the updater of handleRegenerateAudio *)

\* what generateSpeech resolves to: Null on any error, or a clip of some length
\* (the audioUrl of a clip stands for its length)
SpeechResults ==
    {Null} \cup {[audioUrl |-> cs, duration |-> cs] : cs \in AudioDurations}

\* the scene that takes the clip and keeps its duration
SceneWithAudioSameDuration(sc, audioResult) ==
    IF audioResult # Null
    THEN [sc EXCEPT !.audioUrl = audioResult.audioUrl]
    ELSE sc

\* lines 1054-1069: the scene pushed for one generateSpeech result
SceneWithAudio(sc, audioResult) ==
    IF audioResult # Null
    THEN LET audioDuration == audioResult.duration + 60
             finalDuration == Max(sc.durationInSeconds, audioDuration)
         IN  [sc EXCEPT !.audioUrl = audioResult.audioUrl,
                        !.durationInSeconds = finalDuration]
    ELSE sc

\* { ...script, scenes: newScenes, totalDurationInSeconds: Math.ceil(total) },
\* the total in whole seconds
ScriptWithScenes(script, newScenes) ==
    LET totalDuration ==
            SumSeq([i \in 1..Len(newScenes) |-> newScenes[i].durationInSeconds])
    IN  [scenes |-> newScenes,
         totalDurationInSeconds |-> CeilDiv(totalDuration, 100)] @@ script

AddAudioToScript(currentScript, results) ==
    ScriptWithScenes(currentScript,
                     [i \in 1..Len(currentScript.scenes) |->
                         SceneWithAudio(currentScript.scenes[i], results[i])])

\* lines 182-198: setVideoData(prev => ...) with a non-null result
RegenerateUpdate(prev, index, sc, result) ==
    IF prev = Null THEN Null
    ELSE LET audioDuration == result.duration + 60
             finalDuration == Max(prev.scenes[index].durationInSeconds, audioDuration)
         IN  ScriptWithScenes(prev,
                 [prev.scenes EXCEPT ![index] =
                     [sc EXCEPT !.audioUrl = result.audioUrl,
                                !.durationInSeconds = finalDuration]])

------------------------------------------------------------------------------
(* downloadAudioTrack: the cursor of the export loop (lines 258-260) *)

ExportNextFrameNoOverlap(currentFrame, durationInFrames) ==
    currentFrame + durationInFrames

ExportNextFrame(currentFrame, durationInFrames) ==
    currentFrame + Max(0, durationInFrames - TRANSITION_DURATION_IN_FRAMES)

\* currentFrame / FPS, a number of seconds, as a fraction
StartSeconds(currentFrame) == [num |-> currentFrame, den |-> FPS]

------------------------------------------------------------------------------
(* State machine of the App *)

\* lines 61-70: the App's useState initial values, nothing in flight
UiIdle ==
    /\ prompt = <<>>
    /\ audioLoading = FALSE
    /\ audioProgress = Null
    /\ error = Null
    /\ regeneratingIds = {}
    /\ regenCalls = {}
    /\ crashed = FALSE
    /\ generateCall = Null
    /\ scriptsMade = 0

SceneIdle ==
    /\ scene = Null /\ sceneIndex = 0 /\ mounted = FALSE /\ chunks = <<>> /\ frame = 0

Init ==
    /\ videoData = Null
    /\ loading = FALSE
    /\ timeline = <<>>
    /\ playerDuration = 0
    /\ visualTrack = <<>>
    /\ audioTrack = <<>>
    /\ exportPc = "idle"
    /\ exportScenes = <<>>
    /\ buffers = <<>>
    /\ exportCursor = 0
    /\ exportIdx = 0
    /\ batch = Null
    /\ speech = Null
    /\ UiIdle
    /\ SceneIdle

exportVars == <<exportPc, exportScenes, buffers, exportCursor, exportIdx>>

\* handleGenerate up to its await (the button is disabled while loading)
HandleGenerate ==
    /\ ~loading
    /\ loading' = TRUE
    /\ videoData' = Null
    /\ Render(Null)
    /\ UNCHANGED <<exportVars, sceneVars, serviceVars, uiVars>>

\* generateScript resolved with a script
GenerateResolve(data) ==
    /\ loading
    /\ videoData' = [scenes |-> data]
    /\ loading' = FALSE
    /\ Render(videoData')
    /\ UNCHANGED <<exportVars, sceneVars, serviceVars, uiVars>>

\* generateScript rejected
GenerateReject ==
    /\ loading
    /\ loading' = FALSE
    /\ UNCHANGED <<videoData, timeline, playerDuration, visualTrack, audioTrack,
                   exportVars, sceneVars, serviceVars, uiVars>>

\* handleBatchGenerateAudio: addAudioToScript over the current script, one
\* generateSpeech result per scene
HandleBatchGenerateAudio(results) ==
    /\ videoData # Null
    /\ ~loading
    /\ videoData' = AddAudioToScript(videoData, results)
    /\ Render(videoData')
    /\ UNCHANGED <<loading, exportVars, sceneVars, serviceVars, uiVars>>

\* handleRegenerateAudio(index) whose generateSpeech call gave a clip
HandleRegenerateAudio(index, result) ==
    /\ videoData # Null
    /\ index \in 1..Len(videoData.scenes)
    /\ videoData' = RegenerateUpdate(videoData, index, videoData.scenes[index], result)
    /\ Render(videoData')
    /\ UNCHANGED <<loading, exportVars, sceneVars, serviceVars, uiVars>>

\* downloadAudioTrack up to its loop
DownloadStart ==
    /\ exportPc = "idle"
    /\ videoData # Null
    /\ HasAudio(videoData)
    /\ exportPc' = "decode"
    /\ exportScenes' = videoData.scenes
    /\ buffers' = <<>>
    /\ exportCursor' = 0
    /\ exportIdx' = 1
    /\ UNCHANGED <<videoData, loading, timeline, playerDuration, visualTrack,
                   audioTrack, sceneVars, serviceVars, uiVars>>

\* one iteration of the loop over the scenes of the closure
DownloadDecode ==
    /\ exportPc = "decode"
    /\ exportIdx <= Len(exportScenes)
    /\ LET sc == exportScenes[exportIdx]
           durationInFrames == DurationInFrames(sc.durationInSeconds)
       IN  /\ buffers' = IF sc.audioUrl # 0
                         THEN Append(buffers, [buffer |-> sc.audioUrl,
                                               start |-> StartSeconds(exportCursor),
                                               index |-> exportIdx])
                         ELSE buffers
           /\ exportCursor' = ExportNextFrame(exportCursor, durationInFrames)
    /\ exportIdx' = exportIdx + 1
    /\ UNCHANGED <<exportPc, exportScenes, videoData, loading, timeline,
                   playerDuration, visualTrack, audioTrack, sceneVars, serviceVars, uiVars>>

\* the loop is over: the clips are scheduled in the offline context
DownloadMix ==
    /\ exportPc = "decode"
    /\ exportIdx > Len(exportScenes)
    /\ exportPc' = "mixed"
    /\ UNCHANGED <<exportScenes, buffers, exportCursor, exportIdx, videoData, loading,
                   timeline, playerDuration, visualTrack, audioTrack, sceneVars, serviceVars, uiVars>>

\* the file is handed over, or a fetch or decode threw: the locals are gone
DownloadEnd ==
    /\ exportPc \in {"decode", "mixed"}
    /\ exportPc' = "idle"
    /\ exportScenes' = <<>>
    /\ buffers' = <<>>
    /\ exportCursor' = 0
    /\ exportIdx' = 0
    /\ UNCHANGED <<videoData, loading, timeline, playerDuration, visualTrack,
                   audioTrack, sceneVars, serviceVars, uiVars>>

Next ==
    \/ HandleGenerate
    \/ \E data \in Scripts : GenerateResolve(data)
    \/ GenerateReject
    \/ /\ videoData # Null
       /\ \E results \in [1..Len(videoData.scenes) -> SpeechResults] :
             HandleBatchGenerateAudio(results)
    \/ \E index \in 1..MaxScenes : \E result \in SpeechResults \ {Null} :
          HandleRegenerateAudio(index, result)

Spec == Init /\ [][Next]_vars

------------------------------------------------------------------------------
(* The audio export, run on every script the App can hold *)

\* the scripts addAudioToScript can leave in videoData
ScriptsWithAudio ==
    {AddAudioToScript([scenes |-> data], results) :
        <<data, results>> \in
            UNION {[1..n -> {NewScene(cs) : cs \in ScriptDurations}]
                     \X [1..n -> SpeechResults] : n \in 1..MaxScenes}}

InitExport ==
    /\ videoData \in ScriptsWithAudio
    /\ loading = FALSE
    /\ timeline = Timeline(videoData.scenes)
    /\ playerDuration = GetDurationInFrames(videoData)
    /\ visualTrack = VisualTrack(videoData.scenes, timeline)
    /\ audioTrack = AudioTrack(videoData.scenes, timeline)
    /\ exportPc = "idle"
    /\ exportScenes = <<>>
    /\ buffers = <<>>
    /\ exportCursor = 0
    /\ exportIdx = 0
    /\ batch = Null
    /\ speech = Null
    /\ UiIdle
    /\ SceneIdle

NextExport ==
    \/ DownloadStart
    \/ DownloadDecode
    \/ DownloadMix
    \/ DownloadEnd

SpecExport == InitExport /\ [][NextExport]_vars

------------------------------------------------------------------------------
(* addAudioToScript, one scene at a time *)

\* the shortest and the longest duration a generated scene has
BatchDurations == {25, 25 * MaxDurSteps}

\* a scene as the App holds it when the batch starts: as generated, or with
\* the clip and the duration an earlier generateSpeech result gave it
BatchScenes ==
    {SceneWithAudio(NewScene(cs), audioResult) :
        cs \in BatchDurations, audioResult \in SpeechResults}

InitBatch ==
    /\ videoData \in
          {[scenes |-> data] : data \in UNION {[1..n -> BatchScenes] : n \in 1..MaxScenes}}
    /\ loading = FALSE
    /\ timeline = Timeline(videoData.scenes)
    /\ playerDuration = GetDurationInFrames(videoData)
    /\ visualTrack = VisualTrack(videoData.scenes, timeline)
    /\ audioTrack = AudioTrack(videoData.scenes, timeline)
    /\ exportPc = "idle"
    /\ exportScenes = <<>>
    /\ buffers = <<>>
    /\ exportCursor = 0
    /\ exportIdx = 0
    /\ batch = Null
    /\ speech = Null
    /\ UiIdle
    /\ SceneIdle

\* the loop index reported as it is, from 0
ProgressCompletedFromZero(i) == i

\* line 1071: the first argument of onProgress(i + 1, totalScenes)
ProgressCompleted(i) == i + 1

\* handleBatchGenerateAudio calls addAudioToScript(videoData, ...)
BatchStart ==
    /\ videoData # Null
    /\ ~loading
    /\ batch = Null
    /\ batch' = [pc |-> "loop",
                 currentScript |-> videoData,
                 i |-> 0,
                 audioResults |-> <<>>,
                 scenesWithAudio |-> <<>>,
                 onProgress |-> <<>>]
    /\ UNCHANGED <<appVars, sceneVars, speech, uiVars>>

\* one turn of the loop: generateSpeech resolves with audioResult, the scene
\* is pushed and onProgress is called
BatchScene(audioResult) ==
    /\ batch # Null
    /\ batch.pc = "loop"
    /\ batch.i < Len(batch.currentScript.scenes)
    /\ batch' = [batch EXCEPT
                    !.i = batch.i + 1,
                    !.audioResults = Append(batch.audioResults, audioResult),
                    !.scenesWithAudio =
                        Append(batch.scenesWithAudio,
                               SceneWithAudio(batch.currentScript.scenes[batch.i + 1],
                                              audioResult)),
                    !.onProgress =
                        Append(batch.onProgress,
                               [completed |-> ProgressCompleted(batch.i),
                                total |-> Len(batch.currentScript.scenes)])]
    /\ UNCHANGED <<appVars, sceneVars, speech, uiVars>>

\* the loop is over: the script is returned and handed to setVideoData
BatchReturn ==
    /\ batch # Null
    /\ batch.pc = "loop"
    /\ batch.i = Len(batch.currentScript.scenes)
    /\ batch' = [batch EXCEPT !.pc = "returned"]
    /\ videoData' = ScriptWithScenes(batch.currentScript, batch.scenesWithAudio)
    /\ Render(videoData')
    /\ UNCHANGED <<loading, exportVars, sceneVars, speech, uiVars>>

NextBatch ==
    \/ BatchStart
    \/ \E audioResult \in SpeechResults : BatchScene(audioResult)
    \/ BatchReturn

SpecBatch == InitBatch /\ [][NextBatch]_vars

------------------------------------------------------------------------------
(* SceneComponent: splitDialogueIntoChunks *)

(* A string is a sequence of UTF-16 code units; a code unit outside ASCII is  *)
(* written as its code point or its romanised reading.                        *)

Jenba == <<"ji", "xe", "n", "ba">>          \* the speaker written in 4 kana
Aiba == <<"a", "i", "ba">>                  \* the speaker written in 3 kana
Speakers == {Jenba, Aiba}
Colons == {":", "U+FF1A"}                   \* [:：]
SentenceEnds == {"U+3002", "U+FF01", "U+FF1F", "!", "?"}   \* [。！？!?]
ClauseEnds == {"U+3001", ","}               \* [、,]
WhiteSpace == {" ", "U+3000"}               \* \s, and what trim() removes

MaxPieces == 4        \* a dialogue is made of at most MaxPieces pieces

StartsWith(text, prefix) ==
    /\ Len(text) >= Len(prefix)
    /\ SubSeq(text, 1, Len(prefix)) = prefix

\* the length of a speaker's name at the start of the text, with or without
\* the separator after it
NamePrefixLen(text) ==
    IF \E name \in Speakers : StartsWith(text, name)
    THEN LET name == CHOOSE n \in Speakers : StartsWith(text, n)
         IN  IF \E c \in Colons : StartsWith(text, name \o <<c>>)
             THEN Len(name) + 1
             ELSE Len(name)
    ELSE 0

\* the length of the match of /^(じぇんば|あいば)[:：]/, 0 without a match
SpeakerPrefixLen(text) ==
    IF \E name \in Speakers : \E c \in Colons : StartsWith(text, name \o <<c>>)
    THEN 1 + Len(CHOOSE name \in Speakers :
                    \E c \in Colons : StartsWith(text, name \o <<c>>))
    ELSE 0

RECURSIVE TrimStart(_)
TrimStart(text) ==
    IF text # <<>> /\ Head(text) \in WhiteSpace THEN TrimStart(Tail(text)) ELSE text

RECURSIVE TrimEnd(_)
TrimEnd(text) ==
    IF text # <<>> /\ text[Len(text)] \in WhiteSpace
    THEN TrimEnd(SubSeq(text, 1, Len(text) - 1))
    ELSE text

Trim(text) == TrimEnd(TrimStart(text))

\* text.replace(/^(じぇんば|あいば)[:：]/, '').trim()
CleanText(text) == Trim(SubSeq(text, SpeakerPrefixLen(text) + 1, Len(text)))

\* the end of the match of \s* at offset q (offsets count from 0)
RECURSIVE SkipSpace(_, _)
SkipSpace(text, q) ==
    IF q < Len(text) /\ text[q + 1] \in WhiteSpace THEN SkipSpace(text, q + 1) ELSE q

\* String.prototype.split with /(?<=[marks])\s*/: p is the end of the last
\* separator, q the offset tried next; an empty match at p is skipped
RECURSIVE SplitFrom(_, _, _, _)
SplitFrom(text, marks, p, q) ==
    IF q >= Len(text) THEN <<SubSeq(text, p + 1, Len(text))>>
    ELSE IF q >= 1 /\ text[q] \in marks
         THEN LET e == SkipSpace(text, q)
              IN  IF e = p THEN SplitFrom(text, marks, p, q + 1)
                  ELSE <<SubSeq(text, p + 1, q)>> \o SplitFrom(text, marks, e, e)
         ELSE SplitFrom(text, marks, p, q + 1)

SplitAfter(text, marks) == SplitFrom(text, marks, 0, 0)

\* the sentences unfiltered: the empty ones stay
KeepEmpty(parts) == parts

RECURSIVE NonEmpty(_)
NonEmpty(parts) ==
    IF parts = <<>> THEN <<>>
    ELSE IF Len(Head(parts)) > 0 THEN <<Head(parts)>> \o NonEmpty(Tail(parts))
         ELSE NonEmpty(Tail(parts))

\* the accumulation that never flushes its buffer
RECURSIVE AccumulateNeverFlush(_, _)
AccumulateNeverFlush(subParts, currentChunk) ==
    IF subParts = <<>>
    THEN IF currentChunk # <<>> THEN <<currentChunk>> ELSE <<>>
    ELSE AccumulateNeverFlush(Tail(subParts), currentChunk \o Head(subParts))

\* the accumulation that forgets the buffer it flushes
RECURSIVE AccumulateDropFlush(_, _)
AccumulateDropFlush(subParts, currentChunk) ==
    IF subParts = <<>>
    THEN IF currentChunk # <<>> THEN <<currentChunk>> ELSE <<>>
    ELSE LET part == Head(subParts)
         IN  IF Len(currentChunk \o part) > 30
             THEN AccumulateDropFlush(Tail(subParts), part)
             ELSE AccumulateDropFlush(Tail(subParts), currentChunk \o part)

\* lines 34-42: the greedy accumulation of the clause fragments of one sentence
RECURSIVE Accumulate(_, _)
Accumulate(subParts, currentChunk) ==
    IF subParts = <<>>
    THEN IF currentChunk # <<>> THEN <<currentChunk>> ELSE <<>>
    ELSE LET part == Head(subParts)
         IN  IF Len(currentChunk \o part) > 30
             THEN (IF currentChunk # <<>> THEN <<currentChunk>> ELSE <<>>)
                  \o Accumulate(Tail(subParts), part)
             ELSE Accumulate(Tail(subParts), currentChunk \o part)

\* every sentence goes through the clause split, the short ones too
SentenceChunksAlwaysSplit(sentence) ==
    Accumulate(SplitAfter(sentence, ClauseEnds), <<>>)

SentenceChunks(sentence) ==
    IF Len(sentence) < 25 THEN <<sentence>>
    ELSE Accumulate(SplitAfter(sentence, ClauseEnds), <<>>)

RECURSIVE FlatMapChunks(_)
FlatMapChunks(sentences) ==
    IF sentences = <<>> THEN <<>>
    ELSE SentenceChunks(Head(sentences)) \o FlatMapChunks(Tail(sentences))

SplitDialogueIntoChunks(text) ==
    FlatMapChunks(NonEmpty(SplitAfter(CleanText(text), SentenceEnds)))

------------------------------------------------------------------------------
(* SceneComponent: the timing of the chunks (lines 87-106) *)

RECURSIVE Join(_)
Join(parts) == IF parts = <<>> THEN <<>> ELSE Head(parts) \o Join(Tail(parts))

\* A number of frames is the fraction num / den, den > 0.  Every frame position
\* of one scene has the denominator ChunkDen, so sums are sums of numerators.
RatLeq(a, b) == a.num * b.den <= b.num * a.den
RatLess(a, b) == a.num * b.den < b.num * a.den
Rat(num, den) == [num |-> num, den |-> den]

ChunkDen(totalChars) == Max(totalChars, 1) * 100

\* (scene.durationInSeconds * fps) - 15, over 100
TotalDurationFrames(cs) == cs * FPS - 15 * 100

\* (weight / Math.max(totalChars, 1)) * totalDurationFrames, over ChunkDen
ChunkDuration(text, cs) == Max(Len(text), 5) * TotalDurationFrames(cs)

\* the cursor that never moves: every chunk starts at 0
NextStartKept(currentStart, duration) == currentStart

NextStartAssigned(currentStart, duration) == duration

NextStart(currentStart, duration) == currentStart + duration

RECURSIVE ChunksFrom(_, _, _, _)
ChunksFrom(textChunks, cs, den, currentStart) ==
    IF textChunks = <<>> THEN <<>>
    ELSE LET text == Head(textChunks)
             duration == ChunkDuration(text, cs)
             chunkObj == [text |-> text,
                          startFrame |-> Rat(currentStart, den),
                          endFrame |-> Rat(currentStart + duration, den)]
         IN  <<chunkObj>>
             \o ChunksFrom(Tail(textChunks), cs, den, NextStart(currentStart, duration))

Chunks(sc) ==
    LET textChunks == SplitDialogueIntoChunks(sc.dialogue)
        totalChars == Len(Join(textChunks))
    IN  ChunksFrom(textChunks, sc.durationInSeconds, ChunkDen(totalChars), 0)

------------------------------------------------------------------------------
(* State machine of one SceneComponent *)

Word == [i \in 1..16 |-> "x"]
HalfWord == [i \in 1..8 |-> "x"]

\* the pieces a dialogue is made of: the two speaker tags, a speaker's name
\* without a separator, text of 1, 8 and 16 characters, a sentence end, a
\* clause end and a blank
Pieces ==
    { Jenba \o <<":">>, Aiba \o <<"U+FF1A">>, Jenba, <<"x">>, HalfWord, Word,
      <<"U+3002">>, <<"U+3001">>, <<" ">> }

RECURSIVE Dialogues(_)
Dialogues(n) ==
    IF n = 0 THEN {<<>>}
    ELSE LET shorter == Dialogues(n - 1)
         IN  shorter \cup {d \o piece : d \in shorter, piece \in Pieces}

\* the durationInSeconds of the scene on display (in cs): 7.5, 15 and 60 frames
SceneDurations == {25, 50, 200}

InitScene ==
    /\ scene \in [dialogue : Dialogues(MaxPieces), durationInSeconds : SceneDurations]
    /\ sceneIndex = 0
    /\ mounted = FALSE
    /\ chunks = <<>>
    /\ frame = 0
    /\ videoData = Null
    /\ loading = FALSE
    /\ timeline = <<>>
    /\ playerDuration = 0
    /\ visualTrack = <<>>
    /\ audioTrack = <<>>
    /\ exportPc = "idle"
    /\ exportScenes = <<>>
    /\ buffers = <<>>
    /\ exportCursor = 0
    /\ exportIdx = 0
    /\ batch = Null
    /\ speech = Null
    /\ UiIdle

\* the first render: useMemo computes the chunks
MountScene ==
    /\ ~mounted
    /\ mounted' = TRUE
    /\ chunks' = Chunks(scene)
    /\ UNCHANGED <<scene, sceneIndex, frame, appVars, serviceVars, uiVars>>

\* the scene's audio was (re)generated: its duration grows and the memo is
\* computed again
SceneDurationChanged(cs) ==
    /\ mounted
    /\ cs > scene.durationInSeconds
    /\ scene' = [scene EXCEPT !.durationInSeconds = cs]
    /\ chunks' = Chunks(scene')
    /\ UNCHANGED <<sceneIndex, mounted, frame, appVars, serviceVars, uiVars>>

NextScene ==
    \/ MountScene
    \/ \E cs \in SceneDurations : SceneDurationChanged(cs)

SpecScene == InitScene /\ [][NextScene]_vars

------------------------------------------------------------------------------
(* SceneComponent: what one frame of a scene shows *)

\* a fraction in lowest terms
RECURSIVE GCD(_, _)
GCD(a, b) == IF b = 0 THEN a ELSE GCD(b, a % b)

Normal(r) ==
    LET g == GCD(IF r.num < 0 THEN -r.num ELSE r.num, r.den)
    IN  Rat(r.num \div g, r.den \div g)

\* Remotion's Easing.bezier(0.25, 0.1, 0.25, 1) at the fraction x: 0 at 0, 1 at
\* 1, and between them the curve's y at the parameter t where its x reaches x.
\* The curve is x(t) = 3/4 t (1 - t) + t^3, y(t) = 3/10 t (1 - t)^2
\* + 3 t^2 (1 - t) + t^3; t is searched on a grid of 50 steps and y is kept
\* to three decimals.
Bezier(x) ==
    IF x.num = 0 THEN Rat(0, 1)
    ELSE IF x.num = x.den THEN Rat(1, 1)
    ELSE LET K == 50
             X4(k) == 3 * k * K * K - 3 * k * k * K + 4 * k * k * k
             Y10(k) == 3 * k * (K - k) * (K - k) + 30 * k * k * (K - k)
                       + 10 * k * k * k
             Reached(k) == k = K \/ X4(k) * x.den >= x.num * 4 * K * K * K
             t == CHOOSE k \in 0..K :
                     Reached(k) /\ \A j \in 0..(k - 1) : ~Reached(j)
         IN  Rat((Y10(t) * 1000) \div (10 * K * K * K), 1000)

\* the clamped interpolation with its clamp left out
InterpolateUnclamped(input, inputMax, outputMin, outputMax, easing) ==
    LET result == Normal(Rat(input.num * inputMax.den, input.den * inputMax.num))
        eased == IF easing = "bezier" THEN Bezier(result) ELSE result
    IN  Normal(Rat(outputMin * eased.den + eased.num * (outputMax - outputMin),
                   eased.den))

\* Remotion's interpolate(input, [0, inputMax], [outputMin, outputMax]) with
\* the default options: the input is not clamped
InterpolateExtend(input, inputMax, outputMin, outputMax, easing) ==
    LET result == Normal(Rat(input.num * inputMax.den, input.den * inputMax.num))
        eased == IF easing = "bezier" THEN Bezier(result) ELSE result
    IN  Normal(Rat(outputMin * eased.den + eased.num * (outputMax - outputMin),
                   eased.den))

\* Remotion's interpolate(input, [0, inputMax], [outputMin, outputMax],
\* {extrapolateRight: 'clamp', easing}): the input is clamped to inputMax,
\* scaled to a fraction of the input range, eased, and scaled to the output range
Interpolate(input, inputMax, outputMin, outputMax, easing) ==
    LET clamped == IF RatLess(inputMax, input) THEN inputMax ELSE input
        result == Normal(Rat(clamped.num * inputMax.den, clamped.den * inputMax.num))
        eased == IF easing = "bezier" THEN Bezier(result) ELSE result
    IN  Normal(Rat(outputMin * eased.den + eased.num * (outputMax - outputMin),
                   eased.den))

\* lines 54-57
SlideProgress(f) ==
    Interpolate(Rat(f, 1), Rat(TRANSITION_DURATION_IN_FRAMES, 1), 0, 1, "bezier")

\* the offset that slides every scene in, the first one too
XOffsetEveryScene(i, f) ==
    InterpolateExtend(SlideProgress(f), Rat(1, 1), 100, 0, "linear")

\* lines 59-61: the horizontal offset of the scene, in percent
XOffset(i, f) ==
    IF i = 0 THEN Rat(0, 1)
    ELSE InterpolateExtend(SlideProgress(f), Rat(1, 1), 100, 0, "linear")

\* line 222: the width of the progress bar, in percent
ProgressWidth(sc, f) ==
    Interpolate(Rat(f, 1), Rat(sc.durationInSeconds * FPS, 100), 0, 100, "linear")

\* line 109: chunks.find(c => frame >= c.startFrame && frame < c.endFrame)
ActiveChunk(cs, f) ==
    LET Active(k) == /\ RatLeq(cs[k].startFrame, Rat(f, 1))
                     /\ RatLess(Rat(f, 1), cs[k].endFrame)
    IN  IF \E k \in 1..Len(cs) : Active(k)
        THEN cs[CHOOSE k \in 1..Len(cs) :
                    Active(k) /\ \A j \in 1..(k - 1) : ~Active(j)]
        ELSE Null

FramesPast == 2      \* frames past the scene's window the values are taken at

\* a scene at any place of the script, with a dialogue of MaxPieces - 2 pieces
InitPlay ==
    /\ scene \in [dialogue : Dialogues(MaxPieces - 2),
                  durationInSeconds : SceneDurations]
    /\ sceneIndex \in 0..(MaxScenes - 1)
    /\ mounted = FALSE
    /\ chunks = <<>>
    /\ frame = 0
    /\ videoData = Null
    /\ loading = FALSE
    /\ timeline = <<>>
    /\ playerDuration = 0
    /\ visualTrack = <<>>
    /\ audioTrack = <<>>
    /\ exportPc = "idle"
    /\ exportScenes = <<>>
    /\ buffers = <<>>
    /\ exportCursor = 0
    /\ exportIdx = 0
    /\ batch = Null
    /\ speech = Null
    /\ UiIdle

\* the player moves to the next frame; the scene's <Sequence> shows the frames
\* 0 .. durationInFrames - 1, the FramesPast frames after them are taken to
\* evaluate what the component computes past its window
AdvanceFrame ==
    /\ mounted
    /\ frame + 1 < DurationInFrames(scene.durationInSeconds) + FramesPast
    /\ frame' = frame + 1
    /\ UNCHANGED <<scene, sceneIndex, mounted, chunks, appVars, serviceVars, uiVars>>

NextPlay ==
    \/ MountScene
    \/ AdvanceFrame

SpecPlay == InitPlay /\ [][NextPlay]_vars

------------------------------------------------------------------------------
(* The text handed to generateSpeech (App.tsx 162-178 and 1033-1052) *)

\* [\s\*\-\d\.]: "1" stands for every digit
BulletChars == WhiteSpace \cup {"*", "-", "1", "."}

\* the length of the longest prefix of text made of the characters of set
RECURSIVE RunLen(_, _)
RunLen(text, set) ==
    IF text # <<>> /\ Head(text) \in set THEN 1 + RunLen(Tail(text), set) ELSE 0

\* textToSpeak.replace(/^[\s\*\-\d\.]+(?=(じぇんば|あいば)[:：])/, '')
StripBullets(text) ==
    LET n == RunLen(text, BulletChars)
        rest == SubSeq(text, n + 1, Len(text))
    IN  IF n >= 1 /\ SpeakerPrefixLen(rest) > 0 THEN rest ELSE text

\* the speaker is always the default one
SpeakerAlwaysJenba(dialogue) == Jenba

\* scene.dialogue.match(speakerRegex): the name it captures, or the default
SpeakerOf(dialogue) ==
    IF SpeakerPrefixLen(dialogue) > 0
    THEN CHOOSE name \in Speakers : StartsWith(dialogue, name)
    ELSE Jenba

\* `${speaker}: ${textToSpeak}`
WithSpeaker(speaker, textToSpeak) == speaker \o <<":", " ">> \o textToSpeak

\* a || b || c on strings: the first that is not empty
FirstNonEmpty(a, b, c) == IF a # <<>> THEN a ELSE IF b # <<>> THEN b ELSE c

\* addAudioToScript, lines 1033-1050
BatchTextToSpeak(sc) ==
    LET textToSpeak ==
            StripBullets(FirstNonEmpty(sc.phoneticDialogue, sc.dialogue,
                                       Jenba \o <<":", " ", ".", ".", ".">>))
    IN  IF SpeakerPrefixLen(textToSpeak) > 0 THEN textToSpeak
        ELSE WithSpeaker(SpeakerOf(sc.dialogue), textToSpeak)

\* handleRegenerateAudio, lines 164-172
RegenerateTextToSpeak(sc) ==
    LET textToSpeak == Trim(FirstNonEmpty(sc.phoneticDialogue, sc.dialogue, <<>>))
    IN  IF SpeakerPrefixLen(textToSpeak) > 0 THEN textToSpeak
        ELSE WithSpeaker(SpeakerOf(sc.dialogue), textToSpeak)

\* the pieces of a dialogue or of a phonetic text: the two tags, a letter, a
\* blank and a bullet
SpeechPieces ==
    { Jenba \o <<":">>, Aiba \o <<"U+FF1A">>, <<"x">>, <<" ">>, <<"*">> }

RECURSIVE SpeechTexts(_)
SpeechTexts(n) ==
    IF n = 0 THEN {<<>>}
    ELSE LET shorter == SpeechTexts(n - 1)
         IN  shorter \cup {t \o piece : t \in shorter, piece \in SpeechPieces}

\* a scene waits for its audio; phoneticDialogue is empty when it is absent
InitSpeech ==
    /\ speech \in
          {[pc |-> "idle", handler |-> "none", input |-> sc,
            phoneticDialogue |-> sc.phoneticDialogue,
            textToSpeak |-> <<>>, audioResult |-> Null] :
              sc \in [dialogue : SpeechTexts(MaxPieces - 2),
                      phoneticDialogue : SpeechTexts(MaxPieces - 2)]}
    /\ videoData = Null
    /\ loading = FALSE
    /\ timeline = <<>>
    /\ playerDuration = 0
    /\ visualTrack = <<>>
    /\ audioTrack = <<>>
    /\ exportPc = "idle"
    /\ exportScenes = <<>>
    /\ buffers = <<>>
    /\ exportCursor = 0
    /\ exportIdx = 0
    /\ batch = Null
    /\ UiIdle
    /\ SceneIdle

\* addAudioToScript reaches the scene and calls generateSpeech(textToSpeak)
SpeakBatch ==
    /\ speech.pc = "idle"
    /\ speech' = [speech EXCEPT !.pc = "awaiting",
                                !.handler = "batch",
                                !.textToSpeak = BatchTextToSpeak(speech.input)]
    /\ UNCHANGED <<appVars, sceneVars, batch, uiVars>>

\* handleRegenerateAudio on the scene: a text it had to prefix is stored in the
\* scene before generateSpeech(textToSpeak) is called
SpeakRegenerate ==
    /\ speech.pc = "idle"
    /\ LET textToSpeak == RegenerateTextToSpeak(speech.input)
           trimmed == Trim(FirstNonEmpty(speech.input.phoneticDialogue,
                                         speech.input.dialogue, <<>>))
       IN  speech' = [speech EXCEPT
                         !.pc = "awaiting",
                         !.handler = "regenerate",
                         !.textToSpeak = textToSpeak,
                         !.phoneticDialogue =
                             IF SpeakerPrefixLen(trimmed) > 0
                             THEN speech.phoneticDialogue
                             ELSE textToSpeak]
    /\ UNCHANGED <<appVars, sceneVars, batch, uiVars>>

\* generateSpeech resolves: a clip stores the text in the scene (lines 190 and
\* 1061), Null leaves the scene as it is
SpeechSettles(audioResult) ==
    /\ speech.pc = "awaiting"
    /\ speech' = [speech EXCEPT
                     !.pc = "done",
                     !.audioResult = audioResult,
                     !.phoneticDialogue =
                         IF audioResult # Null THEN speech.textToSpeak
                         ELSE speech.phoneticDialogue]
    /\ UNCHANGED <<appVars, sceneVars, batch, uiVars>>

NextSpeech ==
    \/ SpeakBatch
    \/ SpeakRegenerate
    \/ \E audioResult \in SpeechResults : SpeechSettles(audioResult)

SpecSpeech == InitSpeech /\ [][NextSpeech]_vars

------------------------------------------------------------------------------
(* The App's handlers as they interleave: every await is a step of its own.
   What the user can start is what the buttons allow: the prompt and Generate
   are disabled while loading or audioLoading (lines 407, 452), the batch
   button while audioLoading or loading (line 487), and the retry button of a
   scene while that scene regenerates or audioLoading (line 586). *)

MaxScripts == 2       \* scripts generateScript returns in one behaviour

\* what the user types over the empty prompt: a blank, a topic
Prompts == {<<" ">>, <<"x">>}

\* what a generateSpeech call resolves to here: Null, or the shortest clip
SpokenResults == {Null, [audioUrl |-> 40, duration |-> 40]}

\* the prompt counts as typed when it is not the empty string
IsEmpty(text) == text = <<>>

\* line 97: !prompt.trim()
IsBlank(text) == Trim(text) = <<>>

\* how many scenes a generated script has, and the totals the generator states
SceneCounts == {1, 2}
StatedTotals == {1, 2}

\* the script generateScript returns for the id-th request: every line carries
\* the script it was written for
GeneratedScripts(id) ==
    {[topic |-> id,
      scenes |-> [k \in 1..n |->
                     [dialogue |-> <<id, k>>, durationInSeconds |-> 25, audioUrl |-> 0]],
      totalDurationInSeconds |-> total] : n \in SceneCounts, total \in StatedTotals}

\* line 409: onChange of the prompt
SetPrompt(value) ==
    /\ ~crashed
    /\ ~loading /\ ~audioLoading
    /\ prompt # value
    /\ prompt' = value
    /\ UNCHANGED <<appVars, sceneVars, serviceVars, audioLoading, audioProgress, error,
                   regeneratingIds, regenCalls, crashed, generateCall, scriptsMade>>

\* lines 96-104: handleGenerate up to the await
GenerateClick ==
    /\ ~crashed
    /\ ~loading /\ ~audioLoading
    /\ scriptsMade < MaxScripts
    /\ IF IsBlank(prompt)
       THEN UNCHANGED vars
       ELSE /\ loading' = TRUE
            /\ error' = Null
            /\ videoData' = Null
            /\ audioProgress' = Null
            /\ generateCall' = [prompt |-> prompt]
            /\ Render(Null)
            /\ UNCHANGED <<exportVars, sceneVars, serviceVars, prompt, audioLoading,
                           regeneratingIds, regenCalls, crashed, scriptsMade>>

\* lines 105-106, 109-111: generateScript resolved
GenerateSucceeds(data) ==
    /\ ~crashed
    /\ generateCall # Null
    /\ videoData' = data
    /\ loading' = FALSE
    /\ generateCall' = Null
    /\ scriptsMade' = scriptsMade + 1
    /\ Render(data)
    /\ UNCHANGED <<exportVars, sceneVars, serviceVars, prompt, audioLoading,
                   audioProgress, error, regeneratingIds, regenCalls, crashed>>

\* lines 107-111: generateScript rejected
GenerateFails ==
    /\ ~crashed
    /\ generateCall # Null
    /\ error' = [message |-> "Failed to generate video script."]
    /\ loading' = FALSE
    /\ generateCall' = Null
    /\ UNCHANGED <<videoData, timeline, playerDuration, visualTrack, audioTrack,
                   exportVars, sceneVars, serviceVars, prompt, audioLoading,
                   audioProgress, regeneratingIds, regenCalls, crashed, scriptsMade>>

\* lines 117-121: handleBatchGenerateAudio up to the await
BatchClick ==
    /\ ~crashed
    /\ ~audioLoading /\ ~loading
    /\ videoData # Null
    /\ audioLoading' = TRUE
    /\ audioProgress' = [current |-> 0, total |-> Len(videoData.scenes)]
    /\ batch' = [currentScript |-> videoData, scenesWithAudio |-> <<>>]
    /\ UNCHANGED <<appVars, sceneVars, speech, prompt, error, regeneratingIds,
                   regenCalls, crashed, generateCall, scriptsMade>>

\* one turn of addAudioToScript's loop; its onProgress is line 124
BatchProgress(audioResult) ==
    /\ ~crashed
    /\ batch # Null
    /\ Len(batch.scenesWithAudio) < Len(batch.currentScript.scenes)
    /\ LET i == Len(batch.scenesWithAudio)
       IN  /\ batch' = [batch EXCEPT !.scenesWithAudio =
                           Append(@, SceneWithAudio(batch.currentScript.scenes[i + 1],
                                                    audioResult))]
           /\ audioProgress' = [current |-> ProgressCompleted(i),
                                total |-> Len(batch.currentScript.scenes)]
    /\ UNCHANGED <<appVars, sceneVars, speech, prompt, audioLoading, error,
                   regeneratingIds, regenCalls, crashed, generateCall, scriptsMade>>

\* lines 127, 131-134: addAudioToScript resolved
BatchSucceeds ==
    /\ ~crashed
    /\ batch # Null
    /\ Len(batch.scenesWithAudio) = Len(batch.currentScript.scenes)
    /\ videoData' = ScriptWithScenes(batch.currentScript, batch.scenesWithAudio)
    /\ Render(videoData')
    /\ audioLoading' = FALSE
    /\ audioProgress' = Null
    /\ batch' = Null
    /\ UNCHANGED <<loading, exportVars, sceneVars, speech, prompt, error,
                   regeneratingIds, regenCalls, crashed, generateCall, scriptsMade>>

\* lines 128-134: addAudioToScript rejected
BatchFails ==
    /\ ~crashed
    /\ batch # Null
    /\ audioLoading' = FALSE
    /\ audioProgress' = Null
    /\ batch' = Null
    /\ UNCHANGED <<appVars, sceneVars, speech, prompt, error, regeneratingIds,
                   regenCalls, crashed, generateCall, scriptsMade>>

\* every index leaves the set
IdsCleared(ids, index) == {}

\* line 208: next.delete(index)
IdsWithout(ids, index) == ids \ {index}

\* lines 152-180: handleRegenerateAudio(index) up to the await; the call keeps
\* the scene of the render it was started in
RegenerateClick(index) ==
    /\ ~crashed
    /\ ~audioLoading
    /\ index \notin regeneratingIds
    /\ videoData # Null
    /\ index \in 1..Len(videoData.scenes)
    /\ regeneratingIds' = regeneratingIds \cup {index}
    /\ regenCalls' = regenCalls \cup {[index |-> index, scene |-> videoData.scenes[index]]}
    /\ UNCHANGED <<appVars, sceneVars, serviceVars, prompt, audioLoading, audioProgress,
                   error, crashed, generateCall, scriptsMade>>

\* lines 180-209: generateSpeech settled (Null: a null result or an exception).
\* The updater reads prev.scenes[index].durationInSeconds: when prev has no
\* such scene it throws, and React unmounts the App.
RegenerateSettles(call, result) ==
    /\ ~crashed
    /\ call \in regenCalls
    /\ IF result # Null /\ videoData # Null /\ call.index > Len(videoData.scenes)
       THEN /\ crashed' = TRUE
            /\ UNCHANGED <<appVars, sceneVars, serviceVars, prompt, audioLoading,
                           audioProgress, error, regeneratingIds, regenCalls,
                           generateCall, scriptsMade>>
       ELSE /\ videoData' = IF result = Null THEN videoData
                            ELSE RegenerateUpdate(videoData, call.index, call.scene,
                                                  result)
            /\ Render(videoData')
            /\ regeneratingIds' = IdsWithout(regeneratingIds, call.index)
            /\ regenCalls' = regenCalls \ {call}
            /\ UNCHANGED <<loading, exportVars, sceneVars, serviceVars, prompt,
                           audioLoading, audioProgress, error, crashed, generateCall,
                           scriptsMade>>

GenerateSettles ==
    \/ \E data \in GeneratedScripts(scriptsMade + 1) : GenerateSucceeds(data)
    \/ GenerateFails

BatchRuns ==
    \/ \E audioResult \in SpokenResults : BatchProgress(audioResult)
    \/ BatchSucceeds
    \/ BatchFails

NextAsync ==
    \/ \E value \in Prompts : SetPrompt(value)
    \/ GenerateClick
    \/ GenerateSettles
    \/ BatchClick
    \/ BatchRuns
    \/ \E index \in 1..MaxScenes : RegenerateClick(index)
    \/ \E call \in regenCalls, result \in SpokenResults : RegenerateSettles(call, result)

SpecAsync == Init /\ [][NextAsync]_vars

\* a pending promise settles: generateScript returns or throws, and so does
\* every generateSpeech of the batch
FairSpecAsync ==
    SpecAsync /\ WF_vars(GenerateSettles) /\ WF_vars(BatchRuns)

------------------------------------------------------------------------------
(* Claims about the timeline and the composition length *)

\* the scenes on display, and the frames of each
Scenes == IF videoData = Null THEN <<>> ELSE videoData.scenes
N == Len(Scenes)
Frames(i) == DurationInFrames(Scenes[i].durationInSeconds)
SumFrames(lo, hi) == SumSeq([k \in 1..(hi - lo + 1) |-> Frames(lo + k - 1)])

\* the frames of placement p, as a set
Window(p) == {f \in p.startFrame..(p.startFrame + p.durationInFrames - 1) : TRUE}

\* C1: for every scene list of length N >= 1 the composition length handed to
\* the player is sum(ceil(durationInSeconds_i * FPS)) - (N-1) * TRANSITION, and
\* it is never negative and never less than the last scene's durationInFrames.
C1_CompositionLength ==
    N >= 1 =>
        /\ playerDuration = SumFrames(1, N) - (N - 1) * TRANSITION_DURATION_IN_FRAMES
        /\ playerDuration >= 0
        /\ playerDuration >= Frames(N)

\* C2: for every non-empty scene list the composition length equals the last
\* placement's startFrame plus its durationInFrames.
C2_LengthIsLastEnd ==
    N >= 1 =>
        playerDuration = timeline[N].startFrame + timeline[N].durationInFrames

\* C3: one placement per scene, in order; placement i lasts
\* ceil(durationInSeconds_i * FPS) frames and starts at the running cursor, which
\* starts at 0 and advances by max(0, durationInFrames_i - overlap) after scene i.
C3_PlacementPerScene ==
    /\ Len(timeline) = N
    /\ \A i \in 1..N :
          /\ timeline[i].durationInFrames = Frames(i)
          /\ timeline[i].startFrame =
                IF i = 1 THEN 0
                ELSE timeline[i - 1].startFrame
                     + Max(0, Frames(i - 1) - TRANSITION_DURATION_IN_FRAMES)

\* a script of three scenes whose second scene is shorter than the overlap
C3_Witness ==
    /\ N = 3
    /\ Len(timeline) = 3
    /\ Frames(1) > TRANSITION_DURATION_IN_FRAMES
    /\ Frames(2) < TRANSITION_DURATION_IN_FRAMES
    /\ timeline[3].startFrame = timeline[2].startFrame
    /\ timeline[2].startFrame > 0

\* C4: startFrame never decreases from one placement to the next, and a scene of
\* at most overlap frames advances the cursor by exactly 0.
C4_StartsMonotone ==
    \A i \in 1..(Len(timeline) - 1) :
        /\ timeline[i + 1].startFrame >= timeline[i].startFrame
        /\ timeline[i].durationInFrames <= TRANSITION_DURATION_IN_FRAMES
              => timeline[i + 1].startFrame = timeline[i].startFrame

\* a scene of exactly overlap frames, and a shorter one, each followed by a scene
C4_Witness ==
    /\ Len(timeline) = 3
    /\ timeline[1].durationInFrames = TRANSITION_DURATION_IN_FRAMES
    /\ timeline[2].durationInFrames < TRANSITION_DURATION_IN_FRAMES
    /\ timeline[3].startFrame = 0

\* C5: the windows of consecutive scenes share exactly overlap frames, except
\* when a scene of the pair is shorter than the overlap: then they share the
\* full duration of such a scene (the shorter of the two).
C5_ConsecutiveOverlap ==
    \A i \in 1..(Len(timeline) - 1) :
        LET a == timeline[i]
            b == timeline[i + 1]
            shared == Cardinality(Window(a) \cap Window(b))
        IN  IF /\ a.durationInFrames >= TRANSITION_DURATION_IN_FRAMES
               /\ b.durationInFrames >= TRANSITION_DURATION_IN_FRAMES
            THEN shared = TRANSITION_DURATION_IN_FRAMES
            ELSE /\ shared = Min(a.durationInFrames, b.durationInFrames)
                 /\ shared < TRANSITION_DURATION_IN_FRAMES

\* a regular pair followed by a pair whose second scene is shorter than the overlap
C5_Witness ==
    /\ Len(timeline) = 3
    /\ timeline[1].durationInFrames > TRANSITION_DURATION_IN_FRAMES
    /\ timeline[2].durationInFrames > TRANSITION_DURATION_IN_FRAMES
    /\ timeline[3].durationInFrames < TRANSITION_DURATION_IN_FRAMES
    /\ Cardinality(Window(timeline[1]) \cap Window(timeline[2]))
          = TRANSITION_DURATION_IN_FRAMES
    /\ Cardinality(Window(timeline[2]) \cap Window(timeline[3]))
          = timeline[3].durationInFrames

\* C6: a single scene is placed at frame 0 and the composition lasts exactly that
\* scene's durationInFrames: no overlap is discounted.
C6_SingleScene ==
    N = 1 =>
        /\ Len(timeline) = 1
        /\ timeline[1].startFrame = 0
        /\ timeline[1].durationInFrames = Frames(1)
        /\ playerDuration = Frames(1)

\* a single scene, shorter than the overlap
C6_Witness ==
    /\ N = 1
    /\ Len(timeline) = 1
    /\ Frames(1) < TRANSITION_DURATION_IN_FRAMES
    /\ playerDuration > 0

\* C7: when every scene has at least overlap frames, placement i (counted from
\* 0) starts at the sum of the earlier scenes' frames minus i * overlap.
C7_ClosedFormStart ==
    (\A j \in 1..N : Frames(j) >= TRANSITION_DURATION_IN_FRAMES) =>
        \A i \in 1..Len(timeline) :
            timeline[i].startFrame
                = SumFrames(1, i - 1) - (i - 1) * TRANSITION_DURATION_IN_FRAMES

\* three scenes of different lengths, none shorter than the overlap
C7_Witness ==
    /\ N = 3
    /\ Len(timeline) = 3
    /\ \A j \in 1..3 : Frames(j) >= TRANSITION_DURATION_IN_FRAMES
    /\ Frames(1) # Frames(2)
    /\ Frames(2) # Frames(3)
    /\ timeline[3].startFrame
          = Frames(1) + Frames(2) - 2 * TRANSITION_DURATION_IN_FRAMES

------------------------------------------------------------------------------
(* Claims about the audio track and the export *)

\* C8: the audio layer of a scene with audioUrl has the startFrame and the
\* durationInFrames of its visual layer, and the export starts the scene's clip
\* at that startFrame / FPS seconds.
C8_TracksAligned ==
    /\ \A index \in 1..N :
          /\ visualTrack[index].from = timeline[index].startFrame
          /\ visualTrack[index].durationInFrames = timeline[index].durationInFrames
          /\ (audioTrack[index] # Null) = (Scenes[index].audioUrl # 0)
          /\ audioTrack[index] # Null =>
                /\ audioTrack[index].from = visualTrack[index].from
                /\ audioTrack[index].durationInFrames
                      = visualTrack[index].durationInFrames
    /\ \A k \in 1..Len(buffers) :
          LET clip == buffers[k]
          IN  /\ clip.buffer = Scenes[clip.index].audioUrl
              /\ clip.start.num * FPS = visualTrack[clip.index].from * clip.start.den
    /\ exportPc = "mixed" => Len(buffers) = N

\* three clips of scenes of different lengths are scheduled for mixing
C8_Witness ==
    /\ exportPc = "mixed"
    /\ Len(buffers) = 3
    /\ Frames(1) # Frames(2)
    /\ buffers[2].start.num > 0
    /\ buffers[3].start.num > buffers[2].start.num
    /\ audioTrack[3] # Null

------------------------------------------------------------------------------
(* Claims about the subtitle chunks *)

RatEq(a, b) == a.num * b.den = b.num * a.den

\* C9: the chunks of a scene are in emission order and contiguous: the first
\* starts at frame 0 and each chunk ends where the next one starts.
C9_ChunksContiguous ==
    mounted =>
        /\ [k \in 1..Len(chunks) |-> chunks[k].text]
              = SplitDialogueIntoChunks(scene.dialogue)
        /\ chunks # <<>> => chunks[1].startFrame.num = 0
        /\ \A k \in 1..(Len(chunks) - 1) :
              RatEq(chunks[k].endFrame, chunks[k + 1].startFrame)

\* three chunks of non-zero duration, the first two of different durations
C9_Witness ==
    /\ mounted
    /\ Len(chunks) = 3
    /\ Len(chunks[1].text) > 5
    /\ Len(chunks[2].text) < 5
    /\ RatLess(chunks[1].startFrame, chunks[1].endFrame)
    /\ RatLess(chunks[2].startFrame, chunks[2].endFrame)

\* C10: for every dialogue that yields a chunk, the last chunk ends at or before
\* the scene's duration in frames minus the 15-frame end buffer.
C10_LastChunkEndsBeforeBuffer ==
    (mounted /\ chunks # <<>>) =>
        RatLeq(chunks[Len(chunks)].endFrame,
               Rat(scene.durationInSeconds * FPS - 15 * 100, 100))

\* C11: every emitted chunk has a non-empty text, a startFrame >= 0 and an
\* endFrame greater than its startFrame: no chunk of zero or negative duration
\* is produced, also when the scene lasts no longer than the end buffer.
C11_ChunksWellFormed ==
    mounted =>
        \A k \in 1..Len(chunks) :
            /\ chunks[k].text # <<>>
            /\ chunks[k].startFrame.num >= 0
            /\ RatLess(chunks[k].startFrame, chunks[k].endFrame)

------------------------------------------------------------------------------
(* Claims about the text of the chunks *)

ChunkTexts == [k \in 1..Len(chunks) |-> chunks[k].text]
Marks == SentenceEnds \cup ClauseEnds

\* joined is clean without some of the blanks that follow a mark
RECURSIVE Reproduces(_, _, _)
Reproduces(clean, joined, afterMark) ==
    IF clean = <<>> THEN joined = <<>>
    ELSE LET c == Head(clean)
         IN  \/ /\ joined # <<>>
                /\ Head(joined) = c
                /\ Reproduces(Tail(clean), Tail(joined),
                              c \in Marks \/ (afterMark /\ c \in WhiteSpace))
             \/ /\ afterMark
                /\ c \in WhiteSpace
                /\ Reproduces(Tail(clean), joined, TRUE)

\* C12: the texts of the chunks, concatenated, are the dialogue without its
\* speaker tag and outer blanks: no character is dropped or duplicated, except
\* blanks that follow a sentence end or a clause end where the text was split
\* (the blanks after a sentence end are always dropped).
C12_TextPreserved ==
    mounted =>
        LET joined == Join(ChunkTexts)
        IN  /\ Reproduces(CleanText(scene.dialogue), joined, FALSE)
            /\ \A i \in 1..(Len(joined) - 1) :
                  joined[i] \in SentenceEnds => joined[i + 1] \notin WhiteSpace

\* one chunk made of two clause fragments, the blank between them dropped
C12_Witness ==
    /\ mounted
    /\ Len(chunks) = 1
    /\ Len(chunks[1].text) < Len(CleanText(scene.dialogue))
    /\ \E i \in 1..Len(chunks[1].text) : chunks[1].text[i] \in ClauseEnds

\* C13: a dialogue that is empty once its speaker tag and its blanks are
\* removed (a dialogue of only a speaker tag too) yields no chunk, and no
\* subtitle is active at any frame.
C13_EmptyDialogue ==
    (mounted /\ CleanText(scene.dialogue) = <<>>) =>
        /\ chunks = <<>>
        /\ ActiveChunk(chunks, frame) = Null

\* a dialogue of a speaker tag and a blank, in the middle of its scene
C13_Witness ==
    /\ mounted
    /\ Len(scene.dialogue) > 1
    /\ SpeakerPrefixLen(scene.dialogue) > 0
    /\ CleanText(scene.dialogue) = <<>>
    /\ frame > 1
    /\ frame < DurationInFrames(scene.durationInSeconds)
    /\ Rat(frame * 100, 100).num < TotalDurationFrames(scene.durationInSeconds)

\* the speaker tags, written out
SpeakerTags ==
    { <<"ji", "xe", "n", "ba", ":">>, <<"ji", "xe", "n", "ba", "U+FF1A">>,
      <<"a", "i", "ba", ":">>, <<"a", "i", "ba", "U+FF1A">> }

\* the text without the speaker tag it begins with, if it begins with one
WithoutLeadingTag(text) ==
    IF \E tag \in SpeakerTags : StartsWith(text, tag)
    THEN LET tag == CHOOSE t \in SpeakerTags : StartsWith(text, t)
         IN  SubSeq(text, Len(tag) + 1, Len(text))
    ELSE text

NoBlanks(text) == SelectSeq(text, LAMBDA c : c \notin WhiteSpace)

\* C14: the speaker tag is removed exactly when the dialogue begins with one of
\* the two names followed by ':' or its full-width form, together with the
\* blanks around the rest; it is removed at most once, and a dialogue that does
\* not begin with a tag keeps all its text (a name later in the text stays).
C14_SpeakerTagStripped ==
    mounted =>
        LET joined == Join(ChunkTexts)
        IN  /\ NoBlanks(joined) = NoBlanks(WithoutLeadingTag(scene.dialogue))
            /\ joined # <<>> =>
                  /\ joined[1] \notin WhiteSpace
                  /\ joined[Len(joined)] \notin WhiteSpace

\* a dialogue of two tags in a row and a blank: the second tag is shown
C14_Witness ==
    /\ mounted
    /\ StartsWith(scene.dialogue, Jenba \o <<":">>)
    /\ Len(scene.dialogue) > Len(Join(ChunkTexts)) + Len(Jenba) + 1
    /\ chunks # <<>>
    /\ StartsWith(chunks[1].text, Aiba \o <<"U+FF1A">>)

\* the sentence units of the dialogue on display
Sentences == NonEmpty(SplitAfter(CleanText(scene.dialogue), SentenceEnds))

\* texts are the chunks of the sentences: a sentence under 25 characters is one
\* chunk, itself; a longer one is one or more chunks that hold its characters
RECURSIVE ChunkedBySentence(_, _)
ChunkedBySentence(sentences, texts) ==
    IF sentences = <<>> THEN texts = <<>>
    ELSE LET sentence == Head(sentences)
         IN  IF Len(sentence) < 25
             THEN /\ texts # <<>>
                  /\ Head(texts) = sentence
                  /\ ChunkedBySentence(Tail(sentences), Tail(texts))
             ELSE \E n \in 1..Len(texts) :
                     /\ NoBlanks(Join(SubSeq(texts, 1, n))) = NoBlanks(sentence)
                     /\ ChunkedBySentence(Tail(sentences),
                                          SubSeq(texts, n + 1, Len(texts)))

\* C15: every sentence unit shorter than 25 characters is emitted as exactly
\* one chunk, verbatim, whatever clause marks it holds; a dialogue without a
\* sentence end is a single sentence unit.
C15_ShortSentenceIsOneChunk ==
    mounted =>
        /\ ChunkedBySentence(Sentences, ChunkTexts)
        /\ LET clean == CleanText(scene.dialogue)
           IN  (clean # <<>> /\ \A i \in 1..Len(clean) : clean[i] \notin SentenceEnds)
                  => /\ Sentences = <<clean>>
                     /\ Len(clean) < 25 => ChunkTexts = <<clean>>

\* a short sentence with a clause end and a blank after it, then a second
\* sentence without a sentence end
C15_Witness ==
    /\ mounted
    /\ Len(Sentences) = 2
    /\ Len(chunks) = 2
    /\ \E i \in 1..(Len(chunks[1].text) - 1) :
          /\ chunks[1].text[i] \in ClauseEnds
          /\ chunks[1].text[i + 1] \in WhiteSpace
    /\ chunks[2].text[Len(chunks[2].text)] \notin SentenceEnds

\* the text is one clause fragment: no clause end before its last character
SingleFragment(text) == \A i \in 1..(Len(text) - 1) : text[i] \notin ClauseEnds

\* the first clause fragment of the text
FirstFragment(text) ==
    IF \E i \in 1..Len(text) : text[i] \in ClauseEnds
    THEN SubSeq(text, 1, CHOOSE i \in 1..Len(text) :
                            /\ text[i] \in ClauseEnds
                            /\ \A j \in 1..(i - 1) : text[j] \notin ClauseEnds)
    ELSE text

\* C16: the clause fragments of a sentence of 25 characters or more are
\* accumulated greedily: a chunk is closed only when the next fragment would
\* take it past 30 characters, so every chunk has at most 30 characters unless
\* it is one clause fragment that is longer than 30 by itself.
C16_GreedyAccumulation ==
    mounted =>
        /\ \A k \in 1..Len(chunks) :
              Len(chunks[k].text) <= 30 \/ SingleFragment(chunks[k].text)
        /\ \A k \in 1..(Len(chunks) - 1) :
              LET text == chunks[k].text
              IN  text[Len(text)] \notin SentenceEnds
                     => Len(text) + Len(FirstFragment(chunks[k + 1].text)) > 30

\* a fragment of 33 characters is a chunk by itself, the next fragment follows
C16_Witness ==
    /\ mounted
    /\ Len(chunks) = 2
    /\ Len(chunks[1].text) > 30
    /\ chunks[1].text[Len(chunks[1].text)] \in ClauseEnds
    /\ Len(chunks[2].text) < 5

------------------------------------------------------------------------------
(* Claims about the timing of the chunks *)

\* endFrame - startFrame of chunk k, over the denominator of its startFrame
Duration(k) == chunks[k].endFrame.num - chunks[k].startFrame.num

\* C17: the duration of chunk k is max(length_k, 5) / max(totalChars, 1) times
\* (the scene's duration in frames - 15); hence a chunk with more characters
\* never lasts shorter than a chunk with fewer characters of the same scene.
C17_DurationByWeight ==
    mounted =>
        LET totalChars == Len(Join(ChunkTexts))
        IN  /\ \A k \in 1..Len(chunks) :
                  /\ chunks[k].endFrame.den = chunks[k].startFrame.den
                  /\ Duration(k) * Max(totalChars, 1) * 100
                        = Max(Len(chunks[k].text), 5)
                          * (scene.durationInSeconds * FPS - 15 * 100)
                          * chunks[k].startFrame.den
            /\ \A j, k \in 1..Len(chunks) :
                  Len(chunks[j].text) > Len(chunks[k].text)
                     => Duration(j) >= Duration(k)

------------------------------------------------------------------------------
(* Claims about the frame a scene shows *)

\* C18: the progress of a scene (the width of its bar, as a fraction of 100) is
\* 0 at frame 0, never decreases from a frame to the next, and is 1 at every
\* frame at or past the scene's durationInFrames.
C18_ProgressBar ==
    mounted =>
        LET width == ProgressWidth(scene, frame)
        IN  /\ frame = 0 => width.num = 0
            /\ RatLeq(Rat(0, 1), width)
            /\ RatLeq(width, ProgressWidth(scene, frame + 1))
            /\ frame >= DurationInFrames(scene.durationInSeconds)
                  => RatEq(width, Rat(100, 1))

\* the first frame past a scene of 7.5 frames: the bar is full
C18_Witness ==
    /\ mounted
    /\ scene.durationInSeconds * FPS < frame * 100
    /\ frame = DurationInFrames(scene.durationInSeconds)
    /\ RatLess(ProgressWidth(scene, frame - 1), Rat(100, 1))
    /\ RatEq(ProgressWidth(scene, frame), Rat(100, 1))

\* C19: only the scenes after the first slide in: the offset of the scene of
\* index 0 is 0 at every frame; for a later scene the slide progress is 0 at
\* frame 0, never decreases, and is 1 (offset 0) at every frame at or past
\* TRANSITION_DURATION_IN_FRAMES.
C19_SlideIn ==
    mounted =>
        LET offset == XOffset(sceneIndex, frame)
            progress == SlideProgress(frame)
        IN  /\ sceneIndex = 0 => offset.num = 0
            /\ sceneIndex > 0 =>
                  /\ frame = 0 => progress.num = 0 /\ offset.num = 100 * offset.den
                  /\ RatLeq(progress, SlideProgress(frame + 1))
                  /\ frame >= TRANSITION_DURATION_IN_FRAMES
                        => RatEq(progress, Rat(1, 1)) /\ offset.num = 0

\* a later scene, at the frame where its slide ends, after frames of a partial
\* offset
C19_Witness ==
    /\ mounted
    /\ sceneIndex > 0
    /\ frame = TRANSITION_DURATION_IN_FRAMES
    /\ frame < DurationInFrames(scene.durationInSeconds)
    /\ RatLess(Rat(0, 1), SlideProgress(1))
    /\ RatLess(SlideProgress(1), SlideProgress(frame - 1))
    /\ RatLess(SlideProgress(frame - 1), Rat(1, 1))
    /\ XOffset(sceneIndex, frame - 1).num > 0
    /\ XOffset(sceneIndex, frame).num = 0

------------------------------------------------------------------------------
(* Claims about addAudioToScript *)

\* C20: addAudioToScript returns as many scenes as it was given, in the same
\* order; a scene whose generateSpeech call fails (a Null result) is returned
\* unchanged, without audioUrl, and the scenes after it are still processed; a
\* scene whose call succeeds gets the clip's audioUrl and durationInSeconds =
\* max(its previous durationInSeconds, the clip's duration + 0.6 s).
C20_AddAudioToScript ==
    batch # Null =>
        LET input == batch.currentScript.scenes
            output == batch.scenesWithAudio
        IN  /\ Len(output) = batch.i
            /\ \A k \in 1..Len(output) :
                  IF batch.audioResults[k] = Null
                  THEN /\ output[k] = input[k]
                       /\ output[k].audioUrl = 0
                  ELSE /\ output[k].audioUrl = batch.audioResults[k].audioUrl
                       /\ output[k].durationInSeconds
                             = Max(input[k].durationInSeconds,
                                   batch.audioResults[k].duration + 60)
            /\ batch.pc = "returned" =>
                  /\ Len(output) = Len(input)
                  /\ videoData.scenes = output

------------------------------------------------------------------------------
(* Claims about the active subtitle *)

\* chunk k is active at the frame on display
IsActive(k) ==
    /\ RatLeq(chunks[k].startFrame, Rat(frame, 1))
    /\ RatLess(Rat(frame, 1), chunks[k].endFrame)

\* C28: at every frame of a scene at most one chunk is active (startFrame <=
\* frame < endFrame), and when the scene lasts no longer than the 15-frame end
\* buffer no chunk is active at any frame: a degenerate chunk is never shown.
C28_AtMostOneActive ==
    mounted =>
        /\ Cardinality({k \in 1..Len(chunks) : IsActive(k)}) <= 1
        /\ (\E k \in 1..Len(chunks) : IsActive(k))
              <=> ActiveChunk(chunks, frame) # Null
        /\ scene.durationInSeconds * FPS <= 15 * 100
              => ActiveChunk(chunks, frame) = Null

\* two chunks of negative duration in a scene of 7.5 frames, past its first frame
C28_Witness ==
    /\ mounted
    /\ Len(chunks) = 2
    /\ scene.durationInSeconds * FPS < 15 * 100
    /\ RatLess(chunks[2].endFrame, chunks[2].startFrame)
    /\ frame > 0
    /\ frame < DurationInFrames(scene.durationInSeconds)

------------------------------------------------------------------------------
(* Claims about the room a scene leaves for its audio *)

\* C24: every scene with an audioUrl lasts at least its clip's length + 0.6 s;
\* so in the timeline the clip, started at the scene's startFrame, ends before
\* the next scene's startFrame, and in the export every clip ends within the
\* rendered length, the final cursor / FPS.
C24_AudioFits ==
    /\ \A i \in 1..N :
          Scenes[i].audioUrl # 0 =>
              /\ Scenes[i].durationInSeconds >= Scenes[i].audioUrl + 60
              /\ i < N =>
                    timeline[i].startFrame * 100 + Scenes[i].audioUrl * FPS
                       < timeline[i + 1].startFrame * 100
    /\ exportPc = "mixed" =>
          \A k \in 1..Len(buffers) :
              LET clip == buffers[k]
              IN  (clip.start.num * 100 + clip.buffer * clip.start.den) * FPS
                     <= exportCursor * 100 * clip.start.den

\* three clips are mixed: the first scene was lengthened to its clip + 0.6 s,
\* the last one is longer than that
C24_Witness ==
    /\ exportPc = "mixed"
    /\ Len(buffers) = 3
    /\ Scenes[1].durationInSeconds = Scenes[1].audioUrl + 60
    /\ Scenes[3].durationInSeconds > Scenes[3].audioUrl + 60
    /\ buffers[3].start.num > 0
    /\ exportCursor > buffers[3].start.num

------------------------------------------------------------------------------
(* Claims about the progress of the batch *)

\* C22: during one addAudioToScript run over N scenes onProgress is called once
\* after each scene, whether its audio succeeded or failed, with completed = 1,
\* 2, ..., N in this order and total = N: the progress never exceeds the total
\* and the returned run has reported N of N.
C22_ProgressCalls ==
    batch # Null =>
        LET total == Len(batch.currentScript.scenes)
            calls == batch.onProgress
        IN  /\ Len(calls) = Len(batch.audioResults)
            /\ \A k \in 1..Len(calls) :
                  /\ calls[k].completed = k
                  /\ calls[k].total = total
                  /\ calls[k].completed <= calls[k].total
            /\ batch.pc = "returned" =>
                  /\ Len(calls) = total
                  /\ calls[total].completed = total

\* a run over three scenes has returned; the audio of the second scene failed
C22_Witness ==
    /\ batch # Null
    /\ batch.pc = "returned"
    /\ Len(batch.onProgress) = 3
    /\ batch.audioResults[1] # Null
    /\ batch.audioResults[2] = Null
    /\ batch.onProgress[3] = [completed |-> 3, total |-> 3]

------------------------------------------------------------------------------
(* Claims about the text handed to generateSpeech *)

\* the text begins with a speaker tag
HasTag(text) == \E tag \in SpeakerTags : StartsWith(text, tag)

\* the name at the start of the dialogue when a separator follows it, the
\* default name otherwise
ExpectedSpeaker(dialogue) ==
    IF StartsWith(dialogue, <<"a", "i", "ba", ":">>)
       \/ StartsWith(dialogue, <<"a", "i", "ba", "U+FF1A">>)
    THEN <<"a", "i", "ba">>
    ELSE <<"ji", "xe", "n", "ba">>

\* the scene's text before a handler touches it
SourceText ==
    IF speech.input.phoneticDialogue # <<>> THEN speech.input.phoneticDialogue
    ELSE IF speech.input.dialogue # <<>> THEN speech.input.dialogue
    ELSE IF speech.handler = "batch"
         THEN <<"ji", "xe", "n", "ba", ":", " ", ".", ".", ".">>
         ELSE <<>>

\* C21 as stated: the text passed to generateSpeech begins with a speaker tag;
\* a text that already has one is passed unchanged, any other text gets the
\* speaker of the scene's dialogue (or the default speaker) prepended; a
\* success stores the text passed in phoneticDialogue.  Blanks are not counted.
C21_SpokenTextPrefixed ==
    (speech # Null /\ speech.pc # "idle") =>
        LET passed == speech.textToSpeak
            source == NoBlanks(SourceText)
        IN  /\ HasTag(passed)
            /\ IF HasTag(source)
               THEN NoBlanks(passed) = source
               ELSE NoBlanks(passed)
                       = ExpectedSpeaker(speech.input.dialogue) \o <<":">> \o source
            /\ (speech.pc = "done" /\ speech.audioResult # Null)
                  => speech.phoneticDialogue = passed

\* the text without the characters of set it begins with
RECURSIVE DropLeading(_, _)
DropLeading(text, set) ==
    IF text # <<>> /\ Head(text) \in set THEN DropLeading(Tail(text), set) ELSE text

\* the text as the handler cleans it before it looks for a tag: the batch removes
\* the blanks, '*', '-', digits and '.' that stand before a tag, the retry trims
CleanedSource ==
    IF speech.handler = "batch"
    THEN IF HasTag(DropLeading(SourceText, WhiteSpace \cup {"*", "-", "1", "."}))
         THEN DropLeading(SourceText, WhiteSpace \cup {"*", "-", "1", "."})
         ELSE SourceText
    ELSE Trim(SourceText)

\* C21, amended: the text passed to generateSpeech begins with a speaker tag;
\* the handler first cleans the scene's text (the batch removes a run of blanks
\* and bullet characters in front of a tag, the retry trims the text); a cleaned
\* text that has a tag is passed as it is, any other gets the speaker of the
\* scene's dialogue (or the default speaker), ': ' and itself; a success stores
\* the text passed in phoneticDialogue.
C21_SpokenTextPrefixedAfterCleaning ==
    (speech # Null /\ speech.pc # "idle") =>
        LET passed == speech.textToSpeak
        IN  /\ HasTag(passed)
            /\ passed = IF HasTag(CleanedSource) THEN CleanedSource
                        ELSE ExpectedSpeaker(speech.input.dialogue)
                             \o <<":", " ">> \o CleanedSource
            /\ (speech.pc = "done" /\ speech.audioResult # Null)
                  => speech.phoneticDialogue = passed

\* the batch got a clip for a phonetic text without a tag: the speaker of the
\* dialogue, the second one, was prepended and the text stored
C21_Witness ==
    /\ speech # Null
    /\ speech.pc = "done"
    /\ speech.handler = "batch"
    /\ speech.audioResult # Null
    /\ speech.input.phoneticDialogue # <<>>
    /\ ~HasTag(speech.input.phoneticDialogue)
    /\ StartsWith(speech.input.dialogue, Aiba)
    /\ StartsWith(speech.textToSpeak, Aiba \o <<":", " ">>)
    /\ speech.phoneticDialogue = speech.textToSpeak

------------------------------------------------------------------------------
(* C26 *)

CallsInFlight == {call.index : call \in regenCalls}

\* starting or finishing the regeneration of index
RegenerationStep(index) ==
    \/ RegenerateClick(index)
    \/ \E call \in regenCalls, result \in SpokenResults :
          call.index = index /\ RegenerateSettles(call, result)

\* C26: index i is in regeneratingIds exactly while a handleRegenerateAudio(i)
\* call is in flight, and starting or finishing the regeneration of i leaves the
\* membership of every other index as it was.
C26_RegeneratingIds ==
    /\ [](regeneratingIds = CallsInFlight)
    /\ [][\A index \in 1..MaxScenes :
             RegenerationStep(index)
                 => regeneratingIds' \ {index} = regeneratingIds \ {index}]_vars

\* scene 1 has been regenerated and its call has ended while the call of
\* scene 2 is still in flight
C26_Witness ==
    /\ videoData # Null
    /\ videoData.scenes[1].audioUrl # 0
    /\ regeneratingIds = {2}
    /\ ~audioLoading

------------------------------------------------------------------------------
(* C27 *)

\* C27: every scene of videoData was written for the script that is installed;
\* a regeneration started on the previous script writes nothing into it.
C27_ScenesOfInstalledScript ==
    /\ ~crashed
    /\ videoData # Null =>
          \A k \in 1..Len(videoData.scenes) :
              videoData.scenes[k].dialogue[1] = videoData.topic

------------------------------------------------------------------------------
(* C23 *)

\* a batch or a regeneration completes and hands a script to setVideoData
CompletionUpdates ==
    \/ BatchSucceeds
    \/ \E call \in regenCalls, result \in SpokenResults :
          result # Null /\ videoData # Null /\ RegenerateSettles(call, result)

DurationsKept ==
    (videoData # Null /\ videoData' # Null /\ videoData'.topic = videoData.topic)
        => \A k \in 1..Len(videoData.scenes) :
               videoData'.scenes[k].durationInSeconds
                   >= videoData.scenes[k].durationInSeconds

TotalIsCeilOfSum ==
    (CompletionUpdates /\ ~crashed')
        => videoData'.totalDurationInSeconds =
               CeilDiv(SumSeq([k \in 1..Len(videoData'.scenes) |->
                                  videoData'.scenes[k].durationInSeconds]), 100)

\* C23: while one script is installed no scene's durationInSeconds decreases,
\* and after every batch or regeneration that updates videoData the script's
\* totalDurationInSeconds is the sum of its scenes' durations, rounded up.
C23_DurationsGrowTotalFollows ==
    [][DurationsKept /\ TotalIsCeilOfSum]_vars

------------------------------------------------------------------------------
(* C25 *)

====
